---- MODULE Spec2Model ----
(***************************************************************************)
(* Model of the Q47 null-sparse decomposition scripts:                     *)
(*   count_effective_moduli.py      sieve_primes, count_effective_moduli   *)
(*   scripts/verify_local_roots.py  sieve_primes, omega_brute,             *)
(*                                  omega_theory, classify, verify_mod47,  *)
(*                                  main                                   *)
(* A Python list of length len is a function on 0..len-1.  A call that     *)
(* can raise returns a record [raised, value]; raised = TRUE stands for    *)
(* the IndexError that leaves the call.                                    *)
(***************************************************************************)
EXTENDS Integers, Sequences, FiniteSets, TLC

\* Arguments tried for count_effective_moduli(D) and for a direct call of
\* sieve_primes(n): MaxNeg negative ones, then 0..MaxD and 0..MaxN.
MaxNeg == 2
MaxD == 290
MaxN == 110
MinD == 0 - MaxNeg
MinN == 0 - MaxNeg
\* The value given to P_MAX in main (the script itself uses 6299).
MaxP == 700

VARIABLES
  script,      \* entry point being run
  pc,          \* position inside it
  n,           \* sieve_primes: the argument
  sp_result,   \* sieve_primes: outcome of the call
  D,           \* count_effective_moduli: the argument
  is_eff,      \* count_effective_moduli: the flag list
  primes,      \* the list the running for-loop iterates
  k,           \* number of items of primes already consumed
  cem_result,  \* count_effective_moduli: outcome of the call
  r,           \* verify_mod47: loop variable
  mod47_ret,   \* verify_mod47: returned value ("none" before it returns)
  all_ok,      \* main: all_ok
  results,     \* main: results
  n_inert,     \* main: n_inert
  n_split,     \* main: n_split
  n_ramif,     \* main: n_ramif
  status       \* main: status ("none" before it is set)

vars == <<script, pc, n, sp_result, D, is_eff, primes, k, cem_result,
          r, mod47_ret, all_ok, results, n_inert, n_split, n_ramif, status>>

----------------------------------------------------------------------------
\* Python values

\* [v] * len : empty when len <= 0
NewList(len, v) == [i \in 0..(len - 1) |-> v]

Returned(v) == [raised |-> FALSE, value |-> v]
IndexError(v) == [raised |-> TRUE, value |-> v]
NoCall == [raised |-> FALSE, value |-> <<>>]

\* x in range(start, stop, step), step > 0
InRange(x, start, stop, step) ==
  x >= start /\ x < stop /\ (x - start) % step = 0

\* int(n ** 0.5) for n >= 0
Isqrt(m) == CHOOSE s \in 0..m : s * s <= m /\ (s + 1) * (s + 1) > m

\* pow(b, e, m), b >= 0, e >= 0, m >= 1
RECURSIVE ModPow(_, _, _)
ModPow(b, e, m) ==
  IF e = 0 THEN 1 % m
  ELSE LET h == ModPow(b, e \div 2, m)
           sq == (h * h) % m
       IN IF e % 2 = 1 THEN (sq * (b % m)) % m ELSE sq

----------------------------------------------------------------------------
\* sieve_primes (count_effective_moduli.py)

\* for j in range(i * i, n + 1, i): is_prime[j] = False
SieveMarkBad(is_prime, i, m) ==
  [j \in DOMAIN is_prime |->
     IF InRange(j, i * i + i, m + 1, i) THEN FALSE ELSE is_prime[j]]
SieveMark(is_prime, i, m) ==
  [j \in DOMAIN is_prime |->
     IF InRange(j, i * i, m + 1, i) THEN FALSE ELSE is_prime[j]]

\* for i in range(2, stop): if is_prime[i]: <mark>
RECURSIVE SieveLoop(_, _, _, _)
SieveLoop(is_prime, i, stop, m) ==
  IF i >= stop THEN is_prime
  ELSE SieveLoop(IF is_prime[i] THEN SieveMark(is_prime, i, m) ELSE is_prime,
                 i + 1, stop, m)

\* [i for i in range(lo, hi + 1) if is_prime[i]]
Collect(is_prime, lo, hi) ==
  LET Test(i) == is_prime[i]
  IN SelectSeq([j \in 1..(hi - lo + 1) |-> lo + j - 1], Test)

sieve_primes(m) ==
  LET is_prime0 == NewList(m + 1, TRUE)
  IN IF 0 \notin DOMAIN is_prime0 \/ 1 \notin DOMAIN is_prime0
     THEN IndexError(<<>>)
     ELSE LET is_prime1 == [is_prime0 EXCEPT ![0] = FALSE, ![1] = FALSE]
              is_prime2 == SieveLoop(is_prime1, 2, Isqrt(m) + 1, m)
          IN Returned(Collect(is_prime2, 2, m))

----------------------------------------------------------------------------
\* sieve_primes (scripts/verify_local_roots.py)

vlr_SieveMark(is_prime, i, m) ==
  [j \in DOMAIN is_prime |->
     IF InRange(j, i * i, m + 1, i) THEN FALSE ELSE is_prime[j]]

RECURSIVE vlr_SieveLoop(_, _, _, _)
vlr_SieveLoop(is_prime, i, stop, m) ==
  IF i >= stop THEN is_prime
  ELSE vlr_SieveLoop(IF is_prime[i] THEN vlr_SieveMark(is_prime, i, m)
                     ELSE is_prime, i + 1, stop, m)

vlr_sieve_primes(m) ==
  LET is_prime0 == NewList(m + 1, TRUE)
  IN IF 0 \notin DOMAIN is_prime0 \/ 1 \notin DOMAIN is_prime0
     THEN IndexError(<<>>)
     ELSE LET is_prime1 == [is_prime0 EXCEPT ![0] = FALSE, ![1] = FALSE]
              is_prime2 == vlr_SieveLoop(is_prime1, 2, Isqrt(m) + 1, m)
          IN Returned(Collect(is_prime2, 2, m))

----------------------------------------------------------------------------
\* count_effective_moduli

\* (p - 1) % 47 != 0
NotEffectiveBad(p) == p % 47 # 0
NotEffective(p) == (p - 1) % 47 # 0

\* for m in range(p, D + 1, p): is_eff[m] = False
MarkMultiplesBad(eff, p, d) ==
  [m \in DOMAIN eff |-> IF InRange(m, 2 * p, d + 1, p) THEN FALSE ELSE eff[m]]
MarkMultiples(eff, p, d) ==
  [m \in DOMAIN eff |-> IF InRange(m, p, d + 1, p) THEN FALSE ELSE eff[m]]

\* body of: for p in primes
EffStep(eff, p, d) ==
  IF NotEffective(p) THEN MarkMultiples(eff, p, d) ELSE eff

\* the whole of: for p in primes.  The body only ever stores False, so an
\* entry ends False iff it started False or some iteration stored to it.
EffLoop(eff, ps, d) ==
  [m \in DOMAIN eff |->
     eff[m] /\ \A j \in 1..Len(ps) :
                 ~(NotEffective(ps[j]) /\ InRange(m, ps[j], d + 1, ps[j]))]

\* sum(is_eff)
SumFlags(eff) == Cardinality({i \in DOMAIN eff : eff[i]})

count_effective_moduli(d) ==
  LET eff0 == NewList(d + 1, TRUE)
  IN IF 0 \notin DOMAIN eff0 THEN IndexError(0)
     ELSE LET sp == sieve_primes(d)
          IN IF sp.raised THEN IndexError(0)
             ELSE Returned(SumFlags(EffLoop([eff0 EXCEPT ![0] = FALSE],
                                            sp.value, d)))

----------------------------------------------------------------------------
\* scripts/verify_local_roots.py

\* (pow(m, 47, p) - pow((m - 1) % p, 47, p)) % p
QMod(m, p) == (ModPow(m, 47, p) - ModPow((m - 1) % p, 47, p)) % p

\* count = 0; for n in range(p): if q == 0: count += 1
omega_brute(p) == Cardinality({m \in 0..(p - 1) : QMod(m, p) = 0})

omega_theory_bad(p) ==
  IF p = 47 THEN 0 ELSE IF (p - 1) % 47 = 0 THEN 47 ELSE 0
omega_theory(p) ==
  IF p = 47 THEN 0 ELSE IF (p - 1) % 47 = 0 THEN 46 ELSE 0

classify(p) ==
  IF p = 47 THEN "ramified"
  ELSE IF (p - 1) % 47 = 0 THEN "splitting" ELSE "inert"

\* verify_mod47: the test  q_mod != 1  at residue m
Mod47FailsBad(m) == QMod(m, 47) # 0
Mod47Fails(m) == QMod(m, 47) # 1

P_MAX == MaxP

\* main: the tuple appended to results for prime p
ResultRecord(p) ==
  [p |-> p, ptype |-> classify(p), theory |-> omega_theory(p),
   brute |-> omega_brute(p), ok |-> (omega_brute(p) = omega_theory(p))]

\* main: results.append(...)
AppendResultBad(res, rec) ==
  IF rec.ptype # "inert" THEN Append(res, rec) ELSE res
AppendResult(res, rec) == Append(res, rec)

\* main: status = "ALL PASS" if all_ok else "SOME FAILED"
StatusOf(ok) == IF ok THEN "ALL PASS" ELSE "SOME FAILED"

----------------------------------------------------------------------------
\* State machine

Idle ==
  /\ n = 0 /\ sp_result = NoCall
  /\ D = 0 /\ is_eff = <<>> /\ primes = <<>> /\ k = 0
  /\ cem_result = Returned(0)
  /\ r = 0 /\ mod47_ret = "none"
  /\ all_ok = TRUE /\ results = <<>>
  /\ n_inert = 0 /\ n_split = 0 /\ n_ramif = 0 /\ status = "none"

\* One entry point is called with one argument.
Init ==
  \/ /\ script \in {"sieve_cem", "sieve_vlr"} /\ pc = "call"
     /\ \E m \in MinN..MaxN : n = m
     /\ sp_result = NoCall
     /\ D = 0 /\ is_eff = <<>> /\ primes = <<>> /\ k = 0
     /\ cem_result = Returned(0)
     /\ r = 0 /\ mod47_ret = "none"
     /\ all_ok = TRUE /\ results = <<>>
     /\ n_inert = 0 /\ n_split = 0 /\ n_ramif = 0 /\ status = "none"
  \/ /\ script = "cem" /\ pc = "alloc"
     /\ \E d \in MinD..MaxD : D = d
     /\ n = 0 /\ sp_result = NoCall
     /\ is_eff = <<>> /\ primes = <<>> /\ k = 0
     /\ cem_result = Returned(0)
     /\ r = 0 /\ mod47_ret = "none"
     /\ all_ok = TRUE /\ results = <<>>
     /\ n_inert = 0 /\ n_split = 0 /\ n_ramif = 0 /\ status = "none"
  \/ /\ script = "vlr" /\ pc = "mod47"
     /\ Idle

\* sieve_primes(n), either copy
SieveCall ==
  /\ script \in {"sieve_cem", "sieve_vlr"} /\ pc = "call"
  /\ sp_result' = IF script = "sieve_cem" THEN sieve_primes(n)
                  ELSE vlr_sieve_primes(n)
  /\ pc' = IF sp_result'.raised THEN "raised" ELSE "done"
  /\ UNCHANGED <<script, n, D, is_eff, primes, k, cem_result, r, mod47_ret,
                 all_ok, results, n_inert, n_split, n_ramif, status>>

\* count_effective_moduli: is_eff = [True] * (D + 1); is_eff[0] = False;
\* primes = sieve_primes(D)
CemAlloc ==
  /\ script = "cem" /\ pc = "alloc"
  /\ LET eff0 == NewList(D + 1, TRUE)
         sp == sieve_primes(D)
     IN IF 0 \notin DOMAIN eff0
        THEN /\ pc' = "raised" /\ cem_result' = IndexError(0)
             /\ is_eff' = eff0 /\ UNCHANGED primes
        ELSE IF sp.raised
        THEN /\ pc' = "raised" /\ cem_result' = IndexError(0)
             /\ is_eff' = [eff0 EXCEPT ![0] = FALSE] /\ UNCHANGED primes
        ELSE /\ pc' = "loop" /\ UNCHANGED cem_result
             /\ is_eff' = [eff0 EXCEPT ![0] = FALSE]
             /\ primes' = sp.value
  /\ k' = 0
  /\ UNCHANGED <<script, n, sp_result, D, r, mod47_ret,
                 all_ok, results, n_inert, n_split, n_ramif, status>>

\* count_effective_moduli: one iteration of  for p in primes
CemLoopStep ==
  /\ script = "cem" /\ pc = "loop" /\ k < Len(primes)
  /\ is_eff' = EffStep(is_eff, primes[k + 1], D)
  /\ k' = k + 1
  /\ UNCHANGED <<script, pc, n, sp_result, D, primes, cem_result, r,
                 mod47_ret, all_ok, results, n_inert, n_split, n_ramif,
                 status>>

\* count_effective_moduli: return sum(is_eff)
CemReturn ==
  /\ script = "cem" /\ pc = "loop" /\ k = Len(primes)
  /\ cem_result' = Returned(SumFlags(is_eff))
  /\ pc' = "done"
  /\ UNCHANGED <<script, n, sp_result, D, is_eff, primes, k, r, mod47_ret,
                 all_ok, results, n_inert, n_split, n_ramif, status>>

\* verify_mod47: one iteration of  for n in range(47); a failing residue
\* returns False, and main goes on to its next statement
Mod47Step ==
  /\ script = "vlr" /\ pc = "mod47" /\ r < 47
  /\ IF Mod47Fails(r)
     THEN /\ mod47_ret' = "False" /\ pc' = "sieve" /\ UNCHANGED r
     ELSE /\ r' = r + 1 /\ UNCHANGED <<mod47_ret, pc>>
  /\ UNCHANGED <<script, n, sp_result, D, is_eff, primes, k, cem_result,
                 all_ok, results, n_inert, n_split, n_ramif, status>>

\* verify_mod47: the loop is exhausted, return True
Mod47Return ==
  /\ script = "vlr" /\ pc = "mod47" /\ r = 47
  /\ mod47_ret' = "True" /\ pc' = "sieve"
  /\ UNCHANGED <<script, n, sp_result, D, is_eff, primes, k, cem_result, r,
                 all_ok, results, n_inert, n_split, n_ramif, status>>

\* main: primes = sieve_primes(P_MAX) and the initialisation of the totals
VlrSieve ==
  /\ script = "vlr" /\ pc = "sieve"
  /\ LET sp == vlr_sieve_primes(P_MAX)
     IN IF sp.raised
        THEN /\ pc' = "raised" /\ UNCHANGED primes
        ELSE /\ pc' = "loop" /\ primes' = sp.value
  /\ k' = 0
  /\ all_ok' = TRUE /\ results' = <<>>
  /\ n_inert' = 0 /\ n_split' = 0 /\ n_ramif' = 0
  /\ UNCHANGED <<script, n, sp_result, D, is_eff, cem_result, r, mod47_ret,
                 status>>

\* main: one iteration of  for p in primes
VlrLoopStep ==
  /\ script = "vlr" /\ pc = "loop" /\ k < Len(primes)
  /\ LET rec == ResultRecord(primes[k + 1])
     IN /\ n_inert' = IF rec.ptype = "inert" THEN n_inert + 1 ELSE n_inert
        /\ n_split' = IF rec.ptype = "splitting" THEN n_split + 1
                      ELSE n_split
        /\ n_ramif' = IF rec.ptype \notin {"inert", "splitting"}
                      THEN n_ramif + 1 ELSE n_ramif
        /\ results' = AppendResult(results, rec)
        /\ all_ok' = IF ~rec.ok THEN FALSE ELSE all_ok
  /\ k' = k + 1
  /\ UNCHANGED <<script, pc, n, sp_result, D, is_eff, primes, cem_result, r,
                 mod47_ret, status>>

\* main: the aggregate status after the loop
VlrStatus ==
  /\ script = "vlr" /\ pc = "loop" /\ k = Len(primes)
  /\ status' = StatusOf(all_ok)
  /\ pc' = "done"
  /\ UNCHANGED <<script, n, sp_result, D, is_eff, primes, k, cem_result, r,
                 mod47_ret, all_ok, results, n_inert, n_split, n_ramif>>

Next ==
  \/ SieveCall
  \/ CemAlloc
  \/ CemLoopStep
  \/ CemReturn
  \/ Mod47Step
  \/ Mod47Return
  \/ VlrSieve
  \/ VlrLoopStep
  \/ VlrStatus

Spec == Init /\ [][Next]_vars

----------------------------------------------------------------------------
\* Reference definitions, independent of the sieves

IsPrimeRef(x) == x >= 2 /\ \A d \in 2..(x - 1) : x % d # 0

\* Trial factorisation of q from divisor d upward: every prime factor f of q
\* satisfies (f - 1) mod 47 = 0.
RECURSIVE TrialEffective(_, _)
TrialEffective(q, d) ==
  IF q = 1 THEN TRUE
  ELSE IF d * d > q THEN (q - 1) % 47 = 0
  ELSE IF q % d = 0 THEN (d - 1) % 47 = 0 /\ TrialEffective(q \div d, d)
  ELSE TrialEffective(q, d + 1)

RefEffective == {q \in 1..(MaxD + 1) : TrialEffective(q, 2)}

RefCount(d) == Cardinality({q \in RefEffective : q <= d})

CemEnded == script = "cem" /\ pc \in {"done", "raised"}
SieveEnded == script \in {"sieve_cem", "sieve_vlr"} /\ pc \in {"done", "raised"}

\* The iterations taken one at a time leave what EffLoop computes at once.
LoopSummaryAgrees ==
  (script = "cem" /\ pc \in {"done", "raised"}) =>
     cem_result = count_effective_moduli(D)

----------------------------------------------------------------------------
\* Claims

\* C1: for every D >= 1, count_effective_moduli(D) returns the number of
\* q in 1..D all of whose prime factors (found by trial factorisation) are
\* 1 mod 47; the flags left by the sieve are exactly those q, 1 is counted,
\* no multiple of 47 is, and count_effective_moduli(1) = 1.
C1_CountMatchesReference ==
  (CemEnded /\ D >= 1) =>
     /\ pc = "done"
     /\ cem_result = Returned(RefCount(D))
     /\ \A q \in 1..D : is_eff[q] <=> q \in RefEffective
     /\ is_eff[1]
     /\ \A q \in 1..D : q % 47 = 0 => ~is_eff[q]
     /\ D = 1 => cem_result.value = 1

C1_Witness ==
  /\ script = "cem" /\ pc = "done" /\ D >= 283
  /\ cem_result.value = 2 /\ is_eff[283] /\ ~is_eff[47]

\* C2: for every D >= 1, count_effective_moduli(D) and
\* count_effective_moduli(D - 1) both return a count and the first is at
\* least the second.
C2_Monotone ==
  (CemEnded /\ D >= 1) =>
     LET prev == count_effective_moduli(D - 1)
     IN /\ pc = "done" /\ ~prev.raised
        /\ cem_result.value >= prev.value

\* C3: count_effective_moduli(0) completes normally and returns 0.
C3_ZeroReturnsZero ==
  (CemEnded /\ D = 0) => (pc = "done" /\ cem_result = Returned(0))

\* C4: for every n >= 2, both copies of sieve_primes return exactly the
\* primes of 2..n in strictly increasing order; for n = 100 these are the
\* 25 primes 2, 3, 5, 7, ..., 97.
C4_SieveReturnsPrimes ==
  (SieveEnded /\ n >= 2) =>
     /\ pc = "done" /\ ~sp_result.raised
     /\ LET v == sp_result.value
        IN /\ \A i \in 1..Len(v) : v[i] \in 2..n /\ IsPrimeRef(v[i])
           /\ \A i \in 1..(Len(v) - 1) : v[i] < v[i + 1]
           /\ \A x \in 2..n : IsPrimeRef(x) => \E i \in 1..Len(v) : v[i] = x
           /\ n = 100 => /\ Len(v) = 25
                         /\ SubSeq(v, 1, 4) = <<2, 3, 5, 7>>
                         /\ v[25] = 97

C4_Witness ==
  /\ script = "sieve_vlr" /\ pc = "done" /\ n = 100
  /\ Len(sp_result.value) = 25

\* C5: for every n < 2, sieve_primes(n) does not fail and returns the empty
\* sequence.
C5_SmallSieveEmpty ==
  (SieveEnded /\ n < 2) => (pc = "done" /\ sp_result = Returned(<<>>))

\* C6: for every prime p tested by main, the exhaustive count omega_brute(p)
\* is 0 when p = 47, 46 when p # 47 and (p - 1) mod 47 = 0, and 0 otherwise,
\* it equals omega_theory(p), and the record's match flag is true.
C6_BruteMatchesTheory ==
  script = "vlr" =>
     \A i \in 1..Len(results) :
        LET rec == results[i]
        IN /\ rec.brute = (IF rec.p = 47 THEN 0
                           ELSE IF (rec.p - 1) % 47 = 0 THEN 46 ELSE 0)
           /\ rec.theory = rec.brute
           /\ rec.ok

C6_Witness ==
  /\ script = "vlr" /\ pc = "done"
  /\ \E i \in 1..Len(results) : results[i].p = 283 /\ results[i].brute = 46
  /\ \E i \in 1..Len(results) : results[i].p = 659 /\ results[i].brute = 46
  /\ \E i \in 1..Len(results) : results[i].p = 47 /\ results[i].brute = 0
  /\ \E i \in 1..Len(results) : results[i].p = 2 /\ results[i].brute = 0

C9_Mod47AllOne ==
  script = "vlr" =>
     /\ \A m \in 0..(r - 1) : QMod(m, 47) = 1
     /\ r > 0 => ModPow((0 - 1) % 47, 47, 47) = 46
     /\ mod47_ret # "False"
     /\ pc # "mod47" => (r = 47 /\ mod47_ret = "True")

C9_Witness == script = "vlr" /\ pc = "sieve" /\ r = 47 /\ mod47_ret = "True"

\* C10: for every prime p, count_effective_moduli(p) is
\* count_effective_moduli(p - 1) + 1 exactly when classify(p) is
\* 'splitting', and the two counts are equal when classify(p) is 'ramified'
\* or 'inert'; 47 and every prime below 283 leave the count unchanged.
C10_SieveAgreesWithClassify ==
  (CemEnded /\ IsPrimeRef(D)) =>
     LET prev == count_effective_moduli(D - 1)
     IN /\ pc = "done" /\ ~prev.raised
        /\ (cem_result.value = prev.value + 1) <=> (classify(D) = "splitting")
        /\ classify(D) \in {"ramified", "inert"} =>
              cem_result.value = prev.value
        /\ (D = 47 \/ D < 283) => (cem_result.value = prev.value /\ ~is_eff[D])
        /\ (D = 47) <=> (classify(D) = "ramified")

C10_Witness ==
  /\ script = "cem" /\ pc = "done" /\ D = 283
  /\ classify(D) = "splitting" /\ is_eff[D]
  /\ cem_result.value = count_effective_moduli(282).value + 1

====
